---- MODULE Spec2Model ----
(***************************************************************************)
(* A model of font_resizer.py: the four font size commands (global,        *)
(* window, syntax, view), the load hook that seeds the constraint keys and *)
(* the listener that rewrites the host's own font size commands.           *)
(*                                                                         *)
(* A settings object or a dictionary is a function from the keys it holds  *)
(* to their values.  The host's stores are flat key-value stores: a get    *)
(* with a fallback answers the fallback exactly when the key is absent.    *)
(* Every handler runs to completion inside one host callback, so each is   *)
(* one action.                                                             *)
(***************************************************************************)
EXTENDS Integers, Sequences, FiniteSets, TLC

VARIABLES
    prefs,            \* Preferences.sublime-settings (the global store)
    project_data,     \* window.project_data(): None or a dictionary
    syntax_settings,  \* <syntax name>.sublime-settings of the view's syntax
    view_settings,    \* view.settings() of the current view
    loaded,           \* TRUE once plugin_loaded has run
    last,             \* the handler the host ran last, and what it read, returned, printed
    saved,            \* the sublime.save_settings calls of that handler, in order
    remaining         \* how many more commands the host will run

vars == <<prefs, project_data, syntax_settings, view_settings, loaded, last, saved, remaining>>

----------------------------------------------------------------------------
(* Bounds of the model *)

\* the largest font size a store starts with
MaxSize == 132

\* how many commands the host runs from a start with few sizes
MaxCommands == 2

----------------------------------------------------------------------------
(* Values *)

\* Python's None: a value that equals no dictionary, number or command
None == [none |-> TRUE]

EmptyDict == [k \in {} |-> 0]

PreferencesFile == "Preferences.sublime-settings"

ConstraintKeys == {"default_font_size", "min_font_size", "max_font_size"}

\* the action argument of a command: the three the code knows, and others
Actions == {"increase", "decrease", "reset", "toggle", ""}

\* the command names the listener is shown
Commands == {"increase_font_size", "decrease_font_size", "reset_font_size",
             "global_font_size", "save"}

\* the arguments the host hands the listener with a command
CommandArgs == {None, [action |-> "decrease"]}

----------------------------------------------------------------------------
(* The host's key-value stores *)

Has(s, k) == k \in DOMAIN s

Get(s, k, default) == IF k \in DOMAIN s THEN s[k] ELSE default

Set(s, k, v) == [x \in (DOMAIN s) \cup {k} |-> IF x = k THEN v ELSE s[x]]

Erase(s, k) == [x \in (DOMAIN s) \ {k} |-> s[x]]

----------------------------------------------------------------------------
(* BaseFontSize *)

\* (default, min, max) as configured in the global preferences
global_font_constraints(p) ==
    [default |-> Get(p, "default_font_size", 10),
     min     |-> Get(p, "min_font_size", 8),
     max     |-> Get(p, "max_font_size", 128)]

\* increase_font with > where the tiers are tested with >=
increase_font_strict_tiers(current, max_font) ==
    LET stepped == IF current > 36 THEN current + 4
                   ELSE IF current > 24 THEN current + 2
                   ELSE current + 1
    IN  IF stepped > max_font THEN max_font ELSE stepped

\* increase_font without its check against max_font
increase_font_unclamped(current, max_font) ==
    IF current >= 36 THEN current + 4
    ELSE IF current >= 24 THEN current + 2
    ELSE current + 1

\* the size increase_font hands to set_font_size
increase_font(current, max_font) ==
    LET stepped == IF current >= 36 THEN current + 4
                   ELSE IF current >= 24 THEN current + 2
                   ELSE current + 1
    IN  IF stepped > max_font THEN max_font ELSE stepped

\* decrease_font with the thresholds of increase_font
decrease_font_increase_tiers(current, min_font) ==
    LET stepped == IF current >= 36 THEN current - 4
                   ELSE IF current >= 24 THEN current - 2
                   ELSE current - 1
    IN  IF stepped < min_font THEN min_font ELSE stepped

\* decrease_font without its check against min_font
decrease_font_unclamped(current, min_font) ==
    IF current >= 40 THEN current - 4
    ELSE IF current >= 26 THEN current - 2
    ELSE current - 1

\* the size decrease_font hands to set_font_size
decrease_font(current, min_font) ==
    LET stepped == IF current >= 40 THEN current - 4
                   ELSE IF current >= 26 THEN current - 2
                   ELSE current - 1
    IN  IF stepped < min_font THEN min_font ELSE stepped

\* zoom_font taking every unknown action for its default, "increase"
zoom_font_defaulting(action) ==
    IF action = "decrease" THEN "decrease_font"
    ELSE IF action = "reset" THEN "reset_font"
    ELSE "increase_font"

\* the method zoom_font proxies to; "print" is the diagnostic on the console
zoom_font(action) ==
    IF action = "increase" THEN "increase_font"
    ELSE IF action = "decrease" THEN "decrease_font"
    ELSE IF action = "reset" THEN "reset_font"
    ELSE "print"

\* what zoom_font prints
Console(action) ==
    IF zoom_font(action) = "print"
    THEN <<"plugin_name: unknown font action", action>>
    ELSE <<>>

----------------------------------------------------------------------------
(* GlobalFontSizeCommand *)

Global_get_font_size(p) ==
    Get(p, "font_size", global_font_constraints(p).default)

Global_set_font_size(p, new_font_size) == Set(p, "font_size", new_font_size)

\* the host's own reset: the key is erased
Global_erase_font_size_erasing(p) == Erase(p, "font_size")

Global_erase_font_size(p) ==
    Global_set_font_size(p, global_font_constraints(p).default)

----------------------------------------------------------------------------
(* WindowFontSizeCommand *)

Window_get_window_settings(pd) ==
    LET data == IF pd = None THEN EmptyDict ELSE pd
    IN  Get(data, "settings", EmptyDict)

Window_set_window_settings(pd, settings) ==
    LET data == IF pd = None THEN EmptyDict ELSE pd
    IN  Set(data, "settings", settings)

\* the fallback is the global font_size, not the default
Window_get_font_size_global(p, pd) ==
    Get(Window_get_window_settings(pd), "font_size", Get(p, "font_size", 10))

Window_get_font_size(p, pd) ==
    Get(Window_get_window_settings(pd), "font_size", global_font_constraints(p).default)

Window_set_font_size(pd, new_font_size) ==
    Window_set_window_settings(pd,
        Set(Window_get_window_settings(pd), "font_size", new_font_size))

\* the key is deleted from the copy and the copy is never stored
Window_erase_font_size_unstored(pd) == pd

Window_erase_font_size(pd) ==
    LET settings == Window_get_window_settings(pd)
    IN  IF Has(settings, "font_size")
        THEN Window_set_window_settings(pd, Erase(settings, "font_size"))
        ELSE pd

----------------------------------------------------------------------------
(* SyntaxFontSizeCommand *)

\* the syntax of the current view, and the settings file named after it
SyntaxPath == "Packages/Python/Python.sublime-syntax"

settings_file ==
    IF SyntaxPath = "Packages/Python/Python.sublime-syntax"
    THEN "Python.sublime-settings"
    ELSE "Plain text.sublime-settings"

Syntax_get_font_size(p, s) ==
    Get(s, "font_size", global_font_constraints(p).default)

Syntax_set_font_size(s, new_font_size) == Set(s, "font_size", new_font_size)

Syntax_erase_font_size(s) == Erase(s, "font_size")

----------------------------------------------------------------------------
(* ViewFontSizeCommand *)

View_get_font_size(p, v) ==
    Get(v, "font_size", global_font_constraints(p).default)

View_set_font_size(v, new_font_size) == Set(v, "font_size", new_font_size)

View_erase_font_size(v) == Erase(v, "font_size")

----------------------------------------------------------------------------
(* plugin_loaded and FontResizeCommandRewriter *)

\* plugin_loaded without its settings.has test
plugin_loaded_overwriting(p) ==
    [name \in (DOMAIN p) \cup ConstraintKeys |->
        CASE name = "default_font_size" -> Get(p, "font_size", None)
          [] name = "min_font_size" -> 8
          [] name = "max_font_size" -> 128
          [] OTHER -> p[name]]

\* the preferences as plugin_loaded leaves them
plugin_loaded(p) ==
    LET defaults == [default_font_size |-> Get(p, "font_size", None),
                     min_font_size     |-> 8,
                     max_font_size     |-> 128]
    IN  [name \in (DOMAIN p) \cup ConstraintKeys |->
            IF Has(p, name) THEN p[name] ELSE defaults[name]]

\* plugin_loaded's flag: some name was missing and has been set
updated(p) == \E name \in ConstraintKeys : ~Has(p, name)

\* the listener without its third test
on_window_command_no_reset(command, args) ==
    IF command = "increase_font_size"
        THEN [command |-> "global_font_size", args |-> [action |-> "increase"]]
    ELSE IF command = "decrease_font_size"
        THEN [command |-> "global_font_size", args |-> [action |-> "decrease"]]
    ELSE None

\* the listener's answer: a (command, args) pair, or None
on_window_command(command, args) ==
    IF command = "increase_font_size"
        THEN [command |-> "global_font_size", args |-> [action |-> "increase"]]
    ELSE IF command = "decrease_font_size"
        THEN [command |-> "global_font_size", args |-> [action |-> "decrease"]]
    ELSE IF command = "reset_font_size"
        THEN [command |-> "global_font_size", args |-> [action |-> "reset"]]
    ELSE None

----------------------------------------------------------------------------
(* The handlers, one action each *)

\* what `last` records of a command: its name, its argument, the size
\* get_font_size returned (if the method read one), the value returned to the
\* host and the console output
Ran(cmd, arg, current, ret, log) ==
    [cmd |-> cmd, arg |-> arg, current |-> current, ret |-> ret, log |-> log]

\* the size a zoom method read: increase_font and decrease_font call get_font_size
Read(action, size) ==
    IF zoom_font(action) \in {"increase_font", "decrease_font"} THEN <<size>> ELSE <<>>

PluginLoaded ==
    /\ prefs' = plugin_loaded(prefs)
    /\ saved' = IF updated(prefs) THEN <<PreferencesFile>> ELSE <<>>
    /\ loaded' = TRUE
    /\ last' = Ran("plugin_loaded", "", <<>>, None, <<>>)
    /\ UNCHANGED <<project_data, syntax_settings, view_settings, remaining>>

OnWindowCommand(command, args) ==
    /\ remaining > 0
    /\ remaining' = remaining - 1
    /\ last' = Ran("on_window_command", command, <<>>,
                   on_window_command(command, args), <<>>)
    /\ saved' = <<>>
    /\ UNCHANGED <<prefs, project_data, syntax_settings, view_settings, loaded>>

GlobalFontSizeCommand(action) ==
    /\ remaining > 0
    /\ remaining' = remaining - 1
    /\ LET method  == zoom_font(action)
           current == Global_get_font_size(prefs)
           c       == global_font_constraints(prefs)
       IN  /\ prefs' =
                 CASE method = "increase_font" ->
                        Global_set_font_size(prefs, increase_font(current, c.max))
                   [] method = "decrease_font" ->
                        Global_set_font_size(prefs, decrease_font(current, c.min))
                   [] method = "reset_font" -> Global_erase_font_size(prefs)
                   [] OTHER -> prefs
           /\ saved' = IF method = "print" THEN <<>> ELSE <<PreferencesFile>>
           /\ last' = Ran("global_font_size", action, Read(action, current), None,
                          Console(action))
    /\ UNCHANGED <<project_data, syntax_settings, view_settings, loaded>>

WindowFontSizeCommand(action) ==
    /\ remaining > 0
    /\ remaining' = remaining - 1
    /\ LET method  == zoom_font(action)
           current == Window_get_font_size(prefs, project_data)
           c       == global_font_constraints(prefs)
       IN  /\ project_data' =
                 CASE method = "increase_font" ->
                        Window_set_font_size(project_data, increase_font(current, c.max))
                   [] method = "decrease_font" ->
                        Window_set_font_size(project_data, decrease_font(current, c.min))
                   [] method = "reset_font" -> Window_erase_font_size(project_data)
                   [] OTHER -> project_data
           /\ last' = Ran("window_font_size", action, Read(action, current), None,
                          Console(action))
    /\ saved' = <<>>
    /\ UNCHANGED <<prefs, syntax_settings, view_settings, loaded>>

SyntaxFontSizeCommand(action) ==
    /\ remaining > 0
    /\ remaining' = remaining - 1
    /\ LET method  == zoom_font(action)
           current == Syntax_get_font_size(prefs, syntax_settings)
           c       == global_font_constraints(prefs)
       IN  /\ syntax_settings' =
                 CASE method = "increase_font" ->
                        Syntax_set_font_size(syntax_settings, increase_font(current, c.max))
                   [] method = "decrease_font" ->
                        Syntax_set_font_size(syntax_settings, decrease_font(current, c.min))
                   [] method = "reset_font" -> Syntax_erase_font_size(syntax_settings)
                   [] OTHER -> syntax_settings
           /\ saved' = IF method = "print" THEN <<>> ELSE <<settings_file>>
           /\ last' = Ran("syntax_font_size", action, Read(action, current), None,
                          Console(action))
    /\ UNCHANGED <<prefs, project_data, view_settings, loaded>>

ViewFontSizeCommand(action) ==
    /\ remaining > 0
    /\ remaining' = remaining - 1
    /\ LET method  == zoom_font(action)
           current == View_get_font_size(prefs, view_settings)
           c       == global_font_constraints(prefs)
       IN  /\ view_settings' =
                 CASE method = "increase_font" ->
                        View_set_font_size(view_settings, increase_font(current, c.max))
                   [] method = "decrease_font" ->
                        View_set_font_size(view_settings, decrease_font(current, c.min))
                   [] method = "reset_font" -> View_erase_font_size(view_settings)
                   [] OTHER -> view_settings
           /\ last' = Ran("view_font_size", action, Read(action, current), None,
                          Console(action))
    /\ saved' = <<>>
    /\ UNCHANGED <<prefs, project_data, syntax_settings, loaded>>

----------------------------------------------------------------------------
(* The specification *)

\* the sizes a store starts with when the host goes on to run MaxCommands commands
StartSizes == {7, 25, 34, 38, 127}

\* the values the user's preferences give the constraint keys they hold
DefaultSizes == {23, 24, 36}
MinSizes == {22}
MaxSizes == {38}

\* a global store holding font_size (the host's default preferences define
\* it) and any of the constraint keys
Preferences(size) ==
    { [k \in {"font_size"} \cup keys |->
          CASE k = "font_size" -> size
            [] k = "default_font_size" -> d
            [] k = "min_font_size" -> lo
            [] k = "max_font_size" -> hi] :
      keys \in SUBSET ConstraintKeys, d \in DefaultSizes, lo \in MinSizes, hi \in MaxSizes }

\* a window without project data, with project data that has no settings, and
\* with settings that hold no font size
NoWindowSettings ==
    {None, [folders |-> "."], [folders |-> ".", settings |-> [tab_size |-> 4]]}

\* few sizes in the global store, nothing yet in the other three
InitFew ==
    /\ \E size \in StartSizes : prefs \in Preferences(size)
    /\ project_data \in NoWindowSettings
    /\ syntax_settings = EmptyDict
    /\ view_settings = EmptyDict
    /\ remaining = MaxCommands

\* every size up to MaxSize, held by all four stores, and one command to run
InitWide ==
    /\ \E size \in 0..MaxSize :
          /\ prefs \in Preferences(size)
          /\ project_data = [folders |-> ".", settings |-> [tab_size |-> 4, font_size |-> size]]
          /\ syntax_settings = [font_size |-> size]
          /\ view_settings = [font_size |-> size]
    /\ remaining = 1

Init ==
    /\ InitFew \/ InitWide
    /\ loaded = FALSE
    /\ last = Ran("", "", <<>>, None, <<>>)
    /\ saved = <<>>

Next ==
    \/ PluginLoaded
    \/ \E command \in Commands, args \in CommandArgs : OnWindowCommand(command, args)
    \/ \E action \in Actions : GlobalFontSizeCommand(action)
    \/ \E action \in Actions : WindowFontSizeCommand(action)
    \/ \E action \in Actions : SyntaxFontSizeCommand(action)
    \/ \E action \in Actions : ViewFontSizeCommand(action)

Spec == Init /\ [][Next]_vars

----------------------------------------------------------------------------
(* What the properties below read of a state *)

FontCommands == {"global_font_size", "window_font_size", "syntax_font_size",
                 "view_font_size"}

\* the dictionary a command keeps its font_size in
Store(cmd) ==
    CASE cmd = "global_font_size" -> prefs
      [] cmd = "window_font_size" ->
            IF project_data # None /\ "settings" \in DOMAIN project_data
            THEN project_data["settings"] ELSE EmptyDict
      [] cmd = "syntax_font_size" -> syntax_settings
      [] cmd = "view_font_size" -> view_settings

HasSize(cmd) == "font_size" \in DOMAIN Store(cmd)

ResolvedDefault ==
    IF "default_font_size" \in DOMAIN prefs THEN prefs["default_font_size"] ELSE 10

ResolvedMin == IF "min_font_size" \in DOMAIN prefs THEN prefs["min_font_size"] ELSE 8

ResolvedMax == IF "max_font_size" \in DOMAIN prefs THEN prefs["max_font_size"] ELSE 128

\* the size the command's get_font_size is to return
CurrentSize(cmd) == IF HasSize(cmd) THEN Store(cmd)["font_size"] ELSE ResolvedDefault

Smaller(a, b) == IF a < b THEN a ELSE b

Larger(a, b) == IF a > b THEN a ELSE b

\* the step tables as the specification states them
IncreaseStep(c) == IF c >= 36 THEN 4 ELSE IF c >= 24 THEN 2 ELSE 1

DecreaseStep(c) == IF c >= 40 THEN 4 ELSE IF c >= 26 THEN 2 ELSE 1

\* the step from this state to the next is the command cmd run with this action
Runs(cmd, action) == last'.cmd = cmd /\ last'.arg = action

\* the command cmd with this action is the handler that ran last
JustRan(cmd, action) == last.cmd = cmd /\ last.arg = action

----------------------------------------------------------------------------
(* C1 *)

\* C1: for each of the four commands, run("increase") writes exactly
\* min(c + s, max) to its font_size and run("decrease") writes exactly
\* max(c - t, min), c being the size get_font_size returns, s and t the steps
\* of the two tables, min and max the configured limits.
C1_StepThenClamp ==
    [][\A cmd \in FontCommands :
          /\ Runs(cmd, "increase") =>
                /\ HasSize(cmd)'
                /\ Store(cmd)'["font_size"] =
                      Smaller(CurrentSize(cmd) + IncreaseStep(CurrentSize(cmd)), ResolvedMax)
          /\ Runs(cmd, "decrease") =>
                /\ HasSize(cmd)'
                /\ Store(cmd)'["font_size"] =
                      Larger(CurrentSize(cmd) - DecreaseStep(CurrentSize(cmd)), ResolvedMin)
      ]_vars

\* the global size was 126, the limit is 128, and increase has written 128
C1_Witness ==
    /\ JustRan("global_font_size", "increase")
    /\ last.current = <<126>>
    /\ ResolvedMax = 128
    /\ prefs["font_size"] = 128

----------------------------------------------------------------------------
(* C2 *)

\* C2 as stated: whatever size get_font_size returned, the font_size that
\* run("increase") or run("decrease") writes lies in [min_font_size,
\* max_font_size].
C2_AlwaysWithinLimits ==
    \A cmd \in FontCommands :
        (JustRan(cmd, "increase") \/ JustRan(cmd, "decrease")) =>
            /\ ResolvedMin <= Store(cmd)["font_size"]
            /\ Store(cmd)["font_size"] <= ResolvedMax

\* C2 (amended): for every command, run("increase") writes a font_size that is
\* at most max_font_size and run("decrease") one that is at least
\* min_font_size; the written size lies in [min_font_size, max_font_size]
\* whenever the size get_font_size returned did.
C2_ClampedOnOneSide ==
    [][\A cmd \in FontCommands :
          /\ Runs(cmd, "increase") => Store(cmd)'["font_size"] <= ResolvedMax
          /\ Runs(cmd, "decrease") => Store(cmd)'["font_size"] >= ResolvedMin
          /\ ( /\ Runs(cmd, "increase") \/ Runs(cmd, "decrease")
               /\ ResolvedMin <= CurrentSize(cmd)
               /\ CurrentSize(cmd) <= ResolvedMax )
             => /\ ResolvedMin <= Store(cmd)'["font_size"]
                /\ Store(cmd)'["font_size"] <= ResolvedMax
      ]_vars

\* the view's size was 8, the minimum is 8, and decrease has written 8
C2_Witness ==
    /\ JustRan("view_font_size", "decrease")
    /\ last.current = <<8>>
    /\ ResolvedMin = 8
    /\ view_settings["font_size"] = 8

----------------------------------------------------------------------------
(* C3 *)

\* the sizes increase is to give at the boundaries of its table, max being 128
BoundaryHolds(sizes) ==
    \A cmd \in FontCommands :
        (Runs(cmd, "increase") /\ ResolvedMax = 128 /\ CurrentSize(cmd) \in DOMAIN sizes)
           => Store(cmd)'["font_size"] = sizes[CurrentSize(cmd)]

\* C3 as stated: with max = 128, increase gives 36 from 35, 40 from 36, 26
\* from 24 and 24 from 23.
C3_BoundariesAsStated ==
    [][BoundaryHolds([c \in {35, 36, 24, 23} |->
                        CASE c = 35 -> 36 [] c = 36 -> 40 [] c = 24 -> 26 [] c = 23 -> 24])
      ]_vars

\* C3 (amended): with max = 128, increase gives 37 from 35 (35 is in the +2
\* tier), 40 from 36, 26 from 24 and 24 from 23.
C3_Boundaries ==
    [][BoundaryHolds([c \in {35, 36, 24, 23} |->
                        CASE c = 35 -> 37 [] c = 36 -> 40 [] c = 24 -> 26 [] c = 23 -> 24])
      ]_vars

\* the syntax's size was 35, the limit is 128, and increase has written 37
C3_Witness ==
    /\ JustRan("syntax_font_size", "increase")
    /\ last.current = <<35>>
    /\ ResolvedMax = 128
    /\ syntax_settings["font_size"] = 37

----------------------------------------------------------------------------
(* C4 *)

\* C4: run("reset") of the global command leaves font_size present and equal
\* to the resolved default (default_font_size, or 10 when absent), and a
\* second reset right after the first leaves the global store as it was.
C4_GlobalReset ==
    [][Runs("global_font_size", "reset") =>
          /\ "font_size" \in DOMAIN prefs'
          /\ prefs'["font_size"] = ResolvedDefault
          /\ ResolvedDefault' = ResolvedDefault
          /\ JustRan("global_font_size", "reset") => prefs' = prefs
      ]_vars

\* no default_font_size is configured, and the global reset has written 10
\* over another size
C4_Witness ==
    /\ JustRan("global_font_size", "reset")
    /\ "default_font_size" \notin DOMAIN prefs
    /\ prefs["font_size"] = 10
    /\ view_settings = [font_size |-> 127]

----------------------------------------------------------------------------
(* C5 *)

\* what get_font_size of a command returns in this state
get_font_size(cmd) ==
    CASE cmd = "global_font_size" -> Global_get_font_size(prefs)
      [] cmd = "window_font_size" -> Window_get_font_size(prefs, project_data)
      [] cmd = "syntax_font_size" -> Syntax_get_font_size(prefs, syntax_settings)
      [] cmd = "view_font_size" -> View_get_font_size(prefs, view_settings)

----------------------------------------------------------------------------
(* C6 *)

\* C6: plugin_loaded never overwrites a constraint key the global store
\* already holds; a second run, whatever commands ran in between, writes
\* nothing and saves nothing, and the three keys keep the values they had
\* after the first run.
C6_InitializerIdempotent ==
    [][ /\ last'.cmd = "plugin_loaded" =>
              /\ \A name \in ConstraintKeys \cap DOMAIN prefs :
                    name \in DOMAIN prefs' /\ prefs'[name] = prefs[name]
              /\ loaded => (prefs' = prefs /\ saved' = <<>>)
        /\ loaded =>
              \A name \in ConstraintKeys :
                  /\ name \in DOMAIN prefs /\ name \in DOMAIN prefs'
                  /\ prefs'[name] = prefs[name]
      ]_vars

\* default_font_size is 127, which only plugin_loaded can have set (from the
\* font_size it found); the global size has been changed since; and
\* plugin_loaded has run again, saving nothing
C6_Witness ==
    /\ last.cmd = "plugin_loaded"
    /\ loaded
    /\ prefs["default_font_size"] = 127
    /\ prefs["font_size"] = 119
    /\ prefs["min_font_size"] = 8
    /\ prefs["max_font_size"] = 128
    /\ saved = <<>>

----------------------------------------------------------------------------
(* C7 *)

\* C7: for each of the four commands and every action other than increase,
\* decrease and reset, run(action) changes no store and saves nothing; it
\* prints a diagnostic and returns.
C7_UnknownAction ==
    [][\A cmd \in FontCommands :
          (last'.cmd = cmd /\ last'.arg \notin {"increase", "decrease", "reset"}) =>
              /\ UNCHANGED <<prefs, project_data, syntax_settings, view_settings>>
              /\ saved' = <<>>
              /\ last'.log # <<>>
              /\ last'.ret = None
      ]_vars

\* the syntax command has run with the action "toggle" and printed
C7_Witness ==
    /\ JustRan("syntax_font_size", "toggle")
    /\ last.log = <<"plugin_name: unknown font action", "toggle">>
    /\ saved = <<>>

----------------------------------------------------------------------------
(* C8 *)

NoSettings == project_data = None \/ "settings" \notin DOMAIN project_data

\* C8 as stated: for a window with no settings and every resolved default d,
\* the window command's increase leaves the settings equal to
\* {"font_size": d + 1}.
C8_DefaultPlusOne ==
    [][(NoSettings /\ Runs("window_font_size", "increase")) =>
          /\ project_data' # None
          /\ "settings" \in DOMAIN project_data'
          /\ project_data'["settings"] = [font_size |-> ResolvedDefault + 1]
      ]_vars

\* C8 (amended): for a window with no settings and every resolved default d,
\* the window command's increase leaves the settings equal to
\* {"font_size": min(d + s, max)}, s being the step of d's tier; that is
\* d + 1 when d < 24 and d + 1 <= max.
C8_DefaultPlusStep ==
    [][(NoSettings /\ Runs("window_font_size", "increase")) =>
          /\ project_data' # None
          /\ "settings" \in DOMAIN project_data'
          /\ project_data'["settings"] =
                [font_size |-> Smaller(ResolvedDefault + IncreaseStep(ResolvedDefault),
                                       ResolvedMax)]
          /\ (ResolvedDefault < 24 /\ ResolvedDefault + 1 <= ResolvedMax) =>
                project_data'["settings"] = [font_size |-> ResolvedDefault + 1]
      ]_vars

\* the window had no project data, the default is 23, and increase has left
\* project data holding only the settings {"font_size": 24}
C8_Witness ==
    /\ JustRan("window_font_size", "increase")
    /\ ResolvedDefault = 23
    /\ project_data = [settings |-> [font_size |-> 24]]

----------------------------------------------------------------------------
(* C9 *)

\* C9: the listener answers increase_font_size, decrease_font_size and
\* reset_font_size with the global command and the action increase, decrease
\* and reset, whatever the arguments; for every other command it answers
\* nothing; and it changes no store.
C9_Rewriter ==
    [][last'.cmd = "on_window_command" =>
          /\ last'.arg = "increase_font_size" =>
                last'.ret = [command |-> "global_font_size", args |-> [action |-> "increase"]]
          /\ last'.arg = "decrease_font_size" =>
                last'.ret = [command |-> "global_font_size", args |-> [action |-> "decrease"]]
          /\ last'.arg = "reset_font_size" =>
                last'.ret = [command |-> "global_font_size", args |-> [action |-> "reset"]]
          /\ last'.arg \notin {"increase_font_size", "decrease_font_size", "reset_font_size"} =>
                last'.ret = None
          /\ UNCHANGED <<prefs, project_data, syntax_settings, view_settings>>
          /\ saved' = <<>>
      ]_vars

\* the listener has been shown reset_font_size and answered with the global reset
C9_Witness ==
    /\ last.cmd = "on_window_command"
    /\ last.arg = "reset_font_size"
    /\ last.ret = [command |-> "global_font_size", args |-> [action |-> "reset"]]

----------------------------------------------------------------------------
(* C10 *)

IncreaseUnclamped(c) == c + IncreaseStep(c) <= ResolvedMax

DecreaseUnclamped(c) == c - DecreaseStep(c) >= ResolvedMin

====
